---------------------------- MODULE Spec2Model ----------------------------
(***************************************************************************)
(* The product catalogue of nestjs-product-crud-example: the in-memory     *)
(* ProductsService (products, nextId) and the ProductsController handlers  *)
(* in front of it.                                                         *)
(*                                                                         *)
(* Conventions of the model                                                *)
(*  - a price is held in hundredths (2499.99 is 249999);                   *)
(*  - an instant is a day count from 2024-01-01T00:00:00.000Z, the seed    *)
(*    records' dates being days 0..3; the clock read by `new Date()` is    *)
(*    the variable now, which starts after the seed dates and never goes   *)
(*    back;                                                                *)
(*  - an object is a function from its own keys to values, so an absent    *)
(*    optional key (description) is a key outside DOMAIN;                  *)
(*  - array indexes are 1-based; findIndex keeps the source's -1;          *)
(*  - a value handed to a caller is a handle: Ref(i) is the very object    *)
(*    the store holds in slot i (an alias), Obj(p) an object the store no  *)
(*    longer holds.  Only the handles of the latest result are kept.       *)
(***************************************************************************)
EXTENDS Integers, Sequences, FiniteSets, TLC

VARIABLES
    products,   \* ProductsService.products: the array of Product objects
    nextId,     \* ProductsService.nextId
    now,        \* the clock read by new Date()
    call,       \* the operation handled last and its arguments
    ret,        \* what that operation returned or threw
    nreq,       \* number of operations handled so far
    everHeld,   \* history: every id some stored product has held
    created,    \* history: the seed ids and every id a create returned
    deleted,    \* history: every id a delete removed
    pending,    \* requests that have arrived and wait for their handler
    answered    \* requests whose handler has run, each with its outcome

vars == <<products, nextId, now, call, ret, nreq, everHeld, created, deleted,
          pending, answered>>

(***************************************************************************)
(* Bounds of the exploration.                                              *)
(***************************************************************************)
MaxRequests == 3
MaxTicks == 1

----------------------------------------------------------------------------
(***************************************************************************)
(* Objects and handles.                                                    *)
(***************************************************************************)

\* { ...a, ...b }: the keys of both, b's value where both have the key
Spread(a, b) ==
    [k \in (DOMAIN a) \cup (DOMAIN b) |-> IF k \in DOMAIN b THEN b[k] ELSE a[k]]

Ref(i) == [ref |-> i]
Obj(p) == [obj |-> p]

\* the object a handle stands for, in a given products array
Deref(h, store) == IF "ref" \in DOMAIN h THEN store[h.ref] ELSE h.obj

----------------------------------------------------------------------------
(***************************************************************************)
(* The state after construction.                                           *)
(***************************************************************************)

SeedProducts ==
    << [ id |-> 1,
         name |-> "MacBook Pro 16-inch",
         description |-> "High-performance laptop with M2 Pro chip, perfect for professionals and creatives",
         price |-> 249999,
         stock |-> 15,
         category |-> "Electronics",
         isActive |-> TRUE,
         createdAt |-> 0,
         updatedAt |-> 0 ],
       [ id |-> 2,
         name |-> "iPhone 15 Pro",
         description |-> "Latest iPhone with titanium design and advanced camera system",
         price |-> 99999,
         stock |-> 25,
         category |-> "Electronics",
         isActive |-> TRUE,
         createdAt |-> 1,
         updatedAt |-> 1 ],
       [ id |-> 3,
         name |-> "Samsung Galaxy S24",
         description |-> "Android flagship with AI-powered features and stunning display",
         price |-> 89999,
         stock |-> 0,
         category |-> "Electronics",
         isActive |-> FALSE,
         createdAt |-> 2,
         updatedAt |-> 2 ],
       [ id |-> 4,
         name |-> "Dell XPS 13",
         description |-> "Ultra-portable laptop with premium build quality and long battery life",
         price |-> 129999,
         stock |-> 8,
         category |-> "Electronics",
         isActive |-> TRUE,
         createdAt |-> 3,
         updatedAt |-> 3 ] >>

SeedNextId == 5

\* the first instant the clock can show: after every seed date
ClockStart == SeedProducts[Len(SeedProducts)].createdAt + 1

IdsOf(store) == { store[i].id : i \in 1..Len(store) }

Init ==
    /\ products = SeedProducts
    /\ nextId = SeedNextId
    /\ now = ClockStart
    /\ call = [layer |-> "none", op |-> "constructor"]
    /\ ret = [kind |-> "none"]
    /\ nreq = 0
    /\ everHeld = IdsOf(SeedProducts)
    /\ created = IdsOf(SeedProducts)
    /\ deleted = {}
    /\ pending = {}
    /\ answered = {}


----------------------------------------------------------------------------
(***************************************************************************)
(* Strings.  A character is a string of length 1; its code is its place    *)
(* in the printable ASCII range, which is the order JavaScript compares    *)
(* strings by (UTF-16 code units).                                         *)
(***************************************************************************)

\* the characters of codes 32..95 and of codes 97..126 (a TLA+ string cannot
\* hold code 96, the backquote)
AsciiLow ==
    " !\"#$%&'()*+,-./0123456789:;<=>?@ABCDEFGHIJKLMNOPQRSTUVWXYZ[\\]^_"
AsciiHigh ==
    "abcdefghijklmnopqrstuvwxyz{|}~"

charAt(s, i) == SubSeq(s, i, i)

\* String.prototype.charCodeAt, for one character
charCode(c) ==
    IF \E i \in 1..Len(AsciiLow) : charAt(AsciiLow, i) = c
    THEN 31 + (CHOOSE i \in 1..Len(AsciiLow) : charAt(AsciiLow, i) = c)
    ELSE 96 + (CHOOSE i \in 1..Len(AsciiHigh) : charAt(AsciiHigh, i) = c)

\* String.fromCharCode
fromCharCode(n) ==
    IF n <= 95 THEN charAt(AsciiLow, n - 31) ELSE charAt(AsciiHigh, n - 96)

\* every character of the two ranges
Chars ==
    { charAt(AsciiLow, i) : i \in 1..Len(AsciiLow) }
        \cup { charAt(AsciiHigh, i) : i \in 1..Len(AsciiHigh) }

\* toLowerCase of one character: 'A'..'Z' (65..90) move up by 32
lowerChar(c) ==
    LET n == charCode(c) IN IF n >= 65 /\ n <= 90 THEN fromCharCode(n + 32) ELSE c

\* the two tables, computed once
codeOf == [c \in Chars |-> charCode(c)]
lowerOf == [c \in Chars |-> lowerChar(c)]

\* String.prototype.toLowerCase
RECURSIVE toLowerCase(_)
toLowerCase(s) ==
    IF Len(s) = 0 THEN ""
    ELSE lowerOf[charAt(s, 1)] \o toLowerCase(SubSeq(s, 2, Len(s)))

\* String.prototype.includes
includes(s, t) ==
    \E i \in 0..(Len(s) - Len(t)) : SubSeq(s, i + 1, i + Len(t)) = t

\* s < t for strings: the first differing code unit decides, a proper
\* prefix is smaller
RECURSIVE stringLess(_, _)
stringLess(s, t) ==
    IF Len(t) = 0 THEN FALSE
    ELSE IF Len(s) = 0 THEN TRUE
    ELSE LET a == codeOf[charAt(s, 1)]
             b == codeOf[charAt(t, 1)]
         IN  IF a # b THEN a < b
             ELSE stringLess(SubSeq(s, 2, Len(s)), SubSeq(t, 2, Len(t)))

----------------------------------------------------------------------------
(***************************************************************************)
(* ProductsService.  Each method is a function of the service's state      *)
(* (products, nextId) and the clock: it yields the state after the call    *)
(* and what the call returned or threw.                                    *)
(***************************************************************************)

\* the outcome of a call that leaves the service's fields as they are
Keep(out) == [products |-> products, nextId |-> nextId, out |-> out]

\* return <one Product>
ReturnOne(h) == [kind |-> "return", shape |-> "record", data |-> <<h>>]

\* return <Product[]>: a fresh array of handles
ReturnList(hs) == [kind |-> "return", shape |-> "list", data |-> hs]

\* throw new NotFoundException(`Product with ID ${id} not found`)
NotFoundException(id) ==
    [ kind |-> "throw",
      exception |-> "NotFoundException",
      statusCode |-> 404,
      message |-> "Product with ID " \o ToString(id) \o " not found" ]

\* throw new BadRequestException(message)
BadRequestException(message) ==
    [ kind |-> "throw",
      exception |-> "BadRequestException",
      statusCode |-> 400,
      message |-> message ]

\* Array.prototype.findIndex(p => p.id === id): the first match, -1 if none
findIndex(store, id) ==
    IF \E i \in 1..Len(store) : store[i].id = id
    THEN CHOOSE i \in 1..Len(store) :
            /\ store[i].id = id
            /\ \A j \in 1..(i - 1) : store[j].id # id
    ELSE -1

\* mutant of splice: splice(index), which removes to the end of the array
splice_removesToEnd(store, index) == SubSeq(store, 1, index - 1)

\* Array.prototype.splice(index, 1)
splice(store, index) ==
    [ i \in 1..(Len(store) - 1) |-> IF i < index THEN store[i] ELSE store[i + 1] ]

\* mutant of findById: the id is used as a position, products[id - 1]
findById_byPosition(id) ==
    IF id \in 1..Len(products)
    THEN Keep(ReturnOne(Ref(id)))
    ELSE Keep(NotFoundException(id))

\* findById(id): the stored object itself
findById(id) ==
    LET index == findIndex(products, id) IN
    IF index = -1
    THEN Keep(NotFoundException(id))
    ELSE Keep(ReturnOne(Ref(index)))

\* mutant of create: the record goes to the front of the array
create_prepends(createProductData) ==
    LET newProduct ==
            Spread(Spread([id |-> nextId], createProductData),
                   [createdAt |-> now, updatedAt |-> now])
    IN  [ products |-> <<newProduct>> \o products,
          nextId |-> nextId + 1,
          out |-> ReturnOne(Ref(1)) ]

\* mutant of create: the id is taken from the length of the array
create_idFromLength(createProductData) ==
    LET newProduct ==
            Spread(Spread([id |-> Len(products) + 1], createProductData),
                   [createdAt |-> now, updatedAt |-> now])
    IN  [ products |-> Append(products, newProduct),
          nextId |-> nextId + 1,
          out |-> ReturnOne(Ref(Len(products) + 1)) ]

\* mutant of create: reads the counter and does not advance it
create_keepsCounter(createProductData) ==
    LET newProduct ==
            Spread(Spread([id |-> nextId], createProductData),
                   [createdAt |-> now, updatedAt |-> now])
    IN  [ products |-> Append(products, newProduct),
          nextId |-> nextId,
          out |-> ReturnOne(Ref(Len(products) + 1)) ]

\* create(createProductData)
create(createProductData) ==
    LET newProduct ==
            Spread(Spread([id |-> nextId], createProductData),
                   [createdAt |-> now, updatedAt |-> now])
    IN  [ products |-> Append(products, newProduct),
          nextId |-> nextId + 1,
          out |-> ReturnOne(Ref(Len(products) + 1)) ]

\* mutant of update: builds the record from updateData alone
update_replacesRecord(id, updateData) ==
    LET productIndex == findIndex(products, id) IN
    IF productIndex = -1
    THEN Keep(NotFoundException(id))
    ELSE [ products |->
               [products EXCEPT ![productIndex] =
                    Spread(Spread([id |-> id, createdAt |-> now], updateData),
                           [updatedAt |-> now])],
           nextId |-> nextId,
           out |-> ReturnOne(Ref(productIndex)) ]

\* mutant of update: the creation stamp is refreshed, not the update stamp
update_stampsCreatedAt(id, updateData) ==
    LET productIndex == findIndex(products, id) IN
    IF productIndex = -1
    THEN Keep(NotFoundException(id))
    ELSE LET updatedProduct ==
                 Spread(Spread(products[productIndex], updateData),
                        [createdAt |-> now])
         IN  [ products |-> [products EXCEPT ![productIndex] = updatedProduct],
               nextId |-> nextId,
               out |-> ReturnOne(Ref(productIndex)) ]

\* mutant of update: the record is taken out and the updated one pushed
update_movesToEnd(id, updateData) ==
    LET productIndex == findIndex(products, id) IN
    IF productIndex = -1
    THEN Keep(NotFoundException(id))
    ELSE LET updatedProduct ==
                 Spread(Spread(products[productIndex], updateData),
                        [updatedAt |-> now])
         IN  [ products |-> Append(splice(products, productIndex), updatedProduct),
               nextId |-> nextId,
               out |-> ReturnOne(Ref(Len(products))) ]

\* update(id, updateData)
update(id, updateData) ==
    LET productIndex == findIndex(products, id) IN
    IF productIndex = -1
    THEN Keep(NotFoundException(id))
    ELSE LET updatedProduct ==
                 Spread(Spread(products[productIndex], updateData),
                        [updatedAt |-> now])
         IN  [ products |-> [products EXCEPT ![productIndex] = updatedProduct],
               nextId |-> nextId,
               out |-> ReturnOne(Ref(productIndex)) ]

\* mutant of delete: the 1-based position is spliced, the record after the
\* one found when there is one
delete_wrongSlot(id) ==
    LET productIndex == findIndex(products, id) IN
    IF productIndex = -1
    THEN Keep(NotFoundException(id))
    ELSE [ products |->
               IF productIndex < Len(products)
               THEN splice(products, productIndex + 1)
               ELSE products,
           nextId |-> nextId,
           out |-> ReturnOne(Obj(products[productIndex])) ]

\* delete(id): the removed object, which the store holds no more
delete(id) ==
    LET productIndex == findIndex(products, id) IN
    IF productIndex = -1
    THEN Keep(NotFoundException(id))
    ELSE [ products |-> splice(products, productIndex),
           nextId |-> nextId,
           out |-> ReturnOne(Obj(products[productIndex])) ]

----------------------------------------------------------------------------
(***************************************************************************)
(* The read side of ProductsService.  An array of products is a sequence   *)
(* of slots of the store: the filtered and sorted arrays are new arrays    *)
(* that hold the store's own objects.                                      *)
(***************************************************************************)

\* the argument of a call that passes no query
Undefined == [undefined |-> TRUE]

\* [...this.products]
copyOfProducts == [i \in 1..Len(products) |-> i]

\* mutant of findByCategory: the category is matched as the list filter
\* matches it, by containment
findByCategory_bySubstring(category, activeOnly) ==
    LET sameCategory(i) ==
            includes(toLowerCase(products[i].category), toLowerCase(category))
        active(i) == products[i].isActive
        filteredProducts == SelectSeq(copyOfProducts, sameCategory)
        result == IF activeOnly
                  THEN SelectSeq(filteredProducts, active)
                  ELSE filteredProducts
    IN  Keep(ReturnList([k \in 1..Len(result) |-> Ref(result[k])]))

\* findByCategory(category, activeOnly)
findByCategory(category, activeOnly) ==
    LET sameCategory(i) ==
            toLowerCase(products[i].category) = toLowerCase(category)
        active(i) == products[i].isActive
        filteredProducts == SelectSeq(copyOfProducts, sameCategory)
        result == IF activeOnly
                  THEN SelectSeq(filteredProducts, active)
                  ELSE filteredProducts
    IN  Keep(ReturnList([k \in 1..Len(result) |-> Ref(result[k])]))

\* mutant of applyFilters: a price equal to minPrice is filtered out
applyFilters_strictMinPrice(slots, query) ==
    LET has(k) == k \in DOMAIN query
        byCategory(i) ==
            includes(toLowerCase(products[i].category), toLowerCase(query.category))
        byMinPrice(i) == products[i].price > query.minPrice
        byMaxPrice(i) == products[i].price <= query.maxPrice
        searchLower == toLowerCase(query.search)
        bySearch(i) ==
            \/ includes(toLowerCase(products[i].name), searchLower)
            \/ /\ "description" \in DOMAIN products[i]
               /\ includes(toLowerCase(products[i].description), searchLower)
            \/ includes(toLowerCase(products[i].category), searchLower)
        f0 == slots
        f1 == IF has("category") /\ query.category # ""
              THEN SelectSeq(f0, byCategory) ELSE f0
        f2 == IF has("minPrice") THEN SelectSeq(f1, byMinPrice) ELSE f1
        f3 == IF has("maxPrice") THEN SelectSeq(f2, byMaxPrice) ELSE f2
        f4 == IF has("search") /\ query.search # ""
              THEN SelectSeq(f3, bySearch) ELSE f3
    IN  f4

\* mutant of applyFilters: the category is matched whole, as in the earlier
\* revision of the list handler
applyFilters_exactCategory(slots, query) ==
    LET has(k) == k \in DOMAIN query
        byCategory(i) ==
            toLowerCase(products[i].category) = toLowerCase(query.category)
        byMinPrice(i) == products[i].price >= query.minPrice
        byMaxPrice(i) == products[i].price <= query.maxPrice
        searchLower == toLowerCase(query.search)
        bySearch(i) ==
            \/ includes(toLowerCase(products[i].name), searchLower)
            \/ /\ "description" \in DOMAIN products[i]
               /\ includes(toLowerCase(products[i].description), searchLower)
            \/ includes(toLowerCase(products[i].category), searchLower)
        f0 == slots
        f1 == IF has("category") /\ query.category # ""
              THEN SelectSeq(f0, byCategory) ELSE f0
        f2 == IF has("minPrice") THEN SelectSeq(f1, byMinPrice) ELSE f1
        f3 == IF has("maxPrice") THEN SelectSeq(f2, byMaxPrice) ELSE f2
        f4 == IF has("search") /\ query.search # ""
              THEN SelectSeq(f3, bySearch) ELSE f3
    IN  f4

\* mutant of applyFilters: the search looks through the whole array, not
\* through what the earlier filters left
applyFilters_searchFromAll(slots, query) ==
    LET has(k) == k \in DOMAIN query
        byCategory(i) ==
            includes(toLowerCase(products[i].category), toLowerCase(query.category))
        byMinPrice(i) == products[i].price >= query.minPrice
        byMaxPrice(i) == products[i].price <= query.maxPrice
        searchLower == toLowerCase(query.search)
        bySearch(i) ==
            \/ includes(toLowerCase(products[i].name), searchLower)
            \/ /\ "description" \in DOMAIN products[i]
               /\ includes(toLowerCase(products[i].description), searchLower)
            \/ includes(toLowerCase(products[i].category), searchLower)
        f0 == slots
        f1 == IF has("category") /\ query.category # ""
              THEN SelectSeq(f0, byCategory) ELSE f0
        f2 == IF has("minPrice") THEN SelectSeq(f1, byMinPrice) ELSE f1
        f3 == IF has("maxPrice") THEN SelectSeq(f2, byMaxPrice) ELSE f2
        f4 == IF has("search") /\ query.search # ""
              THEN SelectSeq(f0, bySearch) ELSE f3
    IN  f4

\* applyFilters(products, query), on an array of slots
applyFilters(slots, query) ==
    LET has(k) == k \in DOMAIN query
        byCategory(i) ==
            includes(toLowerCase(products[i].category), toLowerCase(query.category))
        byMinPrice(i) == products[i].price >= query.minPrice
        byMaxPrice(i) == products[i].price <= query.maxPrice
        searchLower == toLowerCase(query.search)
        bySearch(i) ==
            \/ includes(toLowerCase(products[i].name), searchLower)
            \/ /\ "description" \in DOMAIN products[i]
               /\ includes(toLowerCase(products[i].description), searchLower)
            \/ includes(toLowerCase(products[i].category), searchLower)
        f0 == slots
        f1 == IF has("category") /\ query.category # ""
              THEN SelectSeq(f0, byCategory) ELSE f0
        f2 == IF has("minPrice") THEN SelectSeq(f1, byMinPrice) ELSE f1
        f3 == IF has("maxPrice") THEN SelectSeq(f2, byMaxPrice) ELSE f2
        f4 == IF has("search") /\ query.search # ""
              THEN SelectSeq(f3, bySearch) ELSE f3
    IN  f4

\* mutant of the comparator: names are compared as they are written
compare_caseSensitive(a, b, sortBy, order) ==
    LET isString == sortBy = "name"
        aValue == a[sortBy]
        bValue == b[sortBy]
        less(x, y) == IF isString THEN stringLess(x, y) ELSE x < y
    IN  IF order = "ASC"
        THEN IF less(bValue, aValue) THEN 1
             ELSE IF less(aValue, bValue) THEN -1 ELSE 0
        ELSE IF less(aValue, bValue) THEN 1
             ELSE IF less(bValue, aValue) THEN -1 ELSE 0

\* mutant of the comparator: the two-way comparison of the earlier revision
\* of the list handler, which answers -1 for equal keys
compare_naive(a, b, sortBy, order) ==
    LET isString == sortBy = "name"
        aValue == IF isString THEN toLowerCase(a[sortBy]) ELSE a[sortBy]
        bValue == IF isString THEN toLowerCase(b[sortBy]) ELSE b[sortBy]
        less(x, y) == IF isString THEN stringLess(x, y) ELSE x < y
    IN  IF order = "ASC"
        THEN IF less(bValue, aValue) THEN 1 ELSE -1
        ELSE IF less(aValue, bValue) THEN 1 ELSE -1

\* the comparator of applySorting: 1, -1 or 0 for the objects a and b
compare(a, b, sortBy, order) ==
    LET isString == sortBy = "name"
        aValue == IF isString THEN toLowerCase(a[sortBy]) ELSE a[sortBy]
        bValue == IF isString THEN toLowerCase(b[sortBy]) ELSE b[sortBy]
        less(x, y) == IF isString THEN stringLess(x, y) ELSE x < y
    IN  IF order = "ASC"
        THEN IF less(bValue, aValue) THEN 1
             ELSE IF less(aValue, bValue) THEN -1 ELSE 0
        ELSE IF less(aValue, bValue) THEN 1
             ELSE IF less(bValue, aValue) THEN -1 ELSE 0

\* Array.prototype.sort(compareFn): a stable sort (ECMAScript 2019), here by
\* insertion: x goes behind every element that does not compare above it
RECURSIVE insertSorted(_, _, _, _)
insertSorted(sorted, x, sortBy, order) ==
    IF Len(sorted) = 0 THEN <<x>>
    ELSE LET last == sorted[Len(sorted)] IN
         IF compare(products[last], products[x], sortBy, order) <= 0
         THEN Append(sorted, x)
         ELSE Append(insertSorted(SubSeq(sorted, 1, Len(sorted) - 1), x, sortBy, order),
                     last)

RECURSIVE sort(_, _, _)
sort(slots, sortBy, order) ==
    IF Len(slots) = 0 THEN << >>
    ELSE insertSorted(sort(SubSeq(slots, 1, Len(slots) - 1), sortBy, order),
                      slots[Len(slots)], sortBy, order)

\* mutant of applySorting: DESC is the ascending sort turned round
applySorting_descByReversal(slots, query) ==
    LET sortBy == IF "sortBy" \in DOMAIN query THEN query.sortBy ELSE "createdAt"
        order == IF "order" \in DOMAIN query THEN query.order ELSE "DESC"
        ascending == sort(slots, sortBy, "ASC")
    IN  IF order = "ASC"
        THEN ascending
        ELSE [k \in 1..Len(ascending) |-> ascending[Len(ascending) + 1 - k]]

\* mutant of applySorting: a query without order is sorted ascending
applySorting_defaultAscending(slots, query) ==
    LET sortBy == IF "sortBy" \in DOMAIN query THEN query.sortBy ELSE "createdAt"
        order == IF "order" \in DOMAIN query THEN query.order ELSE "ASC"
    IN  sort(slots, sortBy, order)

\* applySorting(products, query), on an array of slots
applySorting(slots, query) ==
    LET sortBy == IF "sortBy" \in DOMAIN query THEN query.sortBy ELSE "createdAt"
        order == IF "order" \in DOMAIN query THEN query.order ELSE "DESC"
    IN  sort(slots, sortBy, order)

\* the array findAll(query) returns, as slots of the store
findAllSlots(query) ==
    IF query # Undefined
    THEN applySorting(applyFilters(copyOfProducts, query), query)
    ELSE copyOfProducts

\* mutant of findAll: the sort runs on the store's own array when no filter
\* took a record out
findAll_sortsStore(query) ==
    LET filteredProducts == findAllSlots(query) IN
    IF Len(filteredProducts) = Len(products)
    THEN [ products |-> [k \in 1..Len(products) |-> products[filteredProducts[k]]],
           nextId |-> nextId,
           out |-> ReturnList([k \in 1..Len(products) |-> Ref(k)]) ]
    ELSE Keep(ReturnList([k \in 1..Len(filteredProducts) |-> Ref(filteredProducts[k])]))

\* findAll(query)
findAll(query) ==
    LET filteredProducts == findAllSlots(query) IN
    Keep(ReturnList([k \in 1..Len(filteredProducts) |-> Ref(filteredProducts[k])]))

\* getCount(query)
getCount(query) ==
    IF query = Undefined
    THEN Keep([kind |-> "return", shape |-> "number", data |-> << >>,
               number |-> Len(products)])
    ELSE Keep([kind |-> "return", shape |-> "number", data |-> << >>,
               number |-> Len(applyFilters(copyOfProducts, query))])

----------------------------------------------------------------------------
(***************************************************************************)
(* ProductsController.  A handler calls the service and wraps what it      *)
(* returns in the response envelope; an exception of the service (or of    *)
(* the handler) ends the request and is the response.                      *)
(***************************************************************************)

\* { success: true, message, data, timestamp } and the handler's own keys
Response(r, message, extras) ==
    IF r.out.kind = "throw" THEN r
    ELSE [ r EXCEPT !.out =
             Spread([ kind |-> "response",
                      success |-> TRUE,
                      message |-> message,
                      shape |-> r.out.shape,
                      data |-> r.out.data,
                      timestamp |-> now ],
                    extras) ]

\* GET /products/:id
getProductById(id) ==
    Response(findById(id), "Product retrieved successfully", << >>)

\* GET /products/category/:categoryName
getProductByCategory(categoryName) ==
    Response(findByCategory(categoryName, TRUE),
             "Products in category '" \o categoryName \o "' retrieved successfully",
             [category |-> categoryName])

\* POST /products
createProduct(createProductDto) ==
    Response(create(createProductDto), "Product created successfully", << >>)

\* mutant of partialUpdateProduct: the price is checked after the update
partialUpdateProduct_checksAfter(id, updateProductDto) ==
    LET r == update(id, updateProductDto) IN
    IF r.out.kind = "throw" THEN r
    ELSE IF "price" \in DOMAIN updateProductDto /\ updateProductDto.price <= 0
    THEN [r EXCEPT !.out = BadRequestException("Price must be greater than 0")]
    ELSE Response(r, "Product partially updated successfully",
                  [updatedFields |-> DOMAIN updateProductDto])

\* mutant of partialUpdateProduct: the id is looked up before the price is
\* checked
partialUpdateProduct_lookupFirst(id, updateProductDto) ==
    IF findIndex(products, id) = -1
    THEN Keep(NotFoundException(id))
    ELSE IF "price" \in DOMAIN updateProductDto /\ updateProductDto.price <= 0
    THEN Keep(BadRequestException("Price must be greater than 0"))
    ELSE Response(update(id, updateProductDto),
                  "Product partially updated successfully",
                  [updatedFields |-> DOMAIN updateProductDto])

\* PATCH /products/:id
partialUpdateProduct(id, updateProductDto) ==
    IF "price" \in DOMAIN updateProductDto /\ updateProductDto.price <= 0
    THEN Keep(BadRequestException("Price must be greater than 0"))
    ELSE Response(update(id, updateProductDto),
                  "Product partially updated successfully",
                  [updatedFields |-> DOMAIN updateProductDto])

\* DELETE /products/:id
deleteProduct(id) ==
    Response(delete(id), "Product deleted successfully", << >>)

\* mutant of the page count: the quotient rounded down, plus one
ceilDiv_floorPlusOne(a, b) == a \div b + 1

\* mutant of the page count: the quotient rounded down
ceilDiv_floor(a, b) == a \div b

\* Math.ceil(a / b) for a >= 0 and b > 0
ceilDiv(a, b) == (a + b - 1) \div b

\* mutant of slice: the element at end is taken too
slice_inclusiveEnd(arr, start, end) ==
    LET clip(k) == IF k < 0
                   THEN (IF Len(arr) + k < 0 THEN 0 ELSE Len(arr) + k)
                   ELSE (IF k > Len(arr) THEN Len(arr) ELSE k)
    IN  SubSeq(arr, clip(start) + 1, clip(end + 1))

\* Array.prototype.slice(start, end)
slice(arr, start, end) ==
    LET clip(k) == IF k < 0
                   THEN (IF Len(arr) + k < 0 THEN 0 ELSE Len(arr) + k)
                   ELSE (IF k > Len(arr) THEN Len(arr) ELSE k)
    IN  SubSeq(arr, clip(start) + 1, clip(end))

\* mutant of the list handler: the first page starts one page into the list
controllerFindAll_startsAtPage(query) ==
    LET has(k) == k \in DOMAIN query
        page == IF has("page") THEN query.page ELSE 1
        limit == IF has("limit") THEN query.limit ELSE 10
        allProducts == findAll(query).out.data
        totalItems == Len(allProducts)
        totalPages == ceilDiv(totalItems, limit)
        currentPage == page
        startIndex == currentPage * limit
        endIndex == startIndex + limit
        paginatedProducts == slice(allProducts, startIndex, endIndex)
    IN  Response(Keep(ReturnList(paginatedProducts)),
                 "Products retrieved successfully",
                 [ pagination |->
                       [ currentPage |-> currentPage,
                         itemPerPage |-> limit,
                         totalItems |-> totalItems,
                         totalPages |-> totalPages,
                         hasNextPage |-> currentPage < totalPages,
                         hasPreviousPage |-> currentPage > 1 ],
                   filters |->
                       [ category |-> IF has("category") /\ query.category # ""
                                      THEN query.category ELSE "all",
                         priceRange |->
                             [ min |-> IF has("minPrice") THEN query.minPrice ELSE 0,
                               max |-> IF has("maxPrice") /\ query.maxPrice # 0
                                       THEN query.maxPrice ELSE "unlimited" ],
                         search |-> IF has("search") /\ query.search # ""
                                    THEN query.search ELSE "none" ] ])

\* GET /products
controllerFindAll(query) ==
    LET has(k) == k \in DOMAIN query
        page == IF has("page") THEN query.page ELSE 1
        limit == IF has("limit") THEN query.limit ELSE 10
        allProducts == findAll(query).out.data
        totalItems == Len(allProducts)
        totalPages == ceilDiv(totalItems, limit)
        currentPage == page
        startIndex == (currentPage - 1) * limit
        endIndex == startIndex + limit
        paginatedProducts == slice(allProducts, startIndex, endIndex)
    IN  Response(Keep(ReturnList(paginatedProducts)),
                 "Products retrieved successfully",
                 [ pagination |->
                       [ currentPage |-> currentPage,
                         itemPerPage |-> limit,
                         totalItems |-> totalItems,
                         totalPages |-> totalPages,
                         hasNextPage |-> currentPage < totalPages,
                         hasPreviousPage |-> currentPage > 1 ],
                   filters |->
                       [ category |-> IF has("category") /\ query.category # ""
                                      THEN query.category ELSE "all",
                         priceRange |->
                             [ min |-> IF has("minPrice") THEN query.minPrice ELSE 0,
                               max |-> IF has("maxPrice") /\ query.maxPrice # 0
                                       THEN query.maxPrice ELSE "unlimited" ],
                         search |-> IF has("search") /\ query.search # ""
                                    THEN query.search ELSE "none" ] ])

----------------------------------------------------------------------------
(***************************************************************************)
(* Request validation.  main.ts installs one global ValidationPipe         *)
(* (whitelist, forbidNonWhitelisted, transform).  The pipe validates a     *)
(* body against the class recorded as the type of the handler's @Body()    *)
(* parameter.  The controller imports the DTO classes with `import type`:  *)
(* such an import is erased when the file is compiled, so the recorded     *)
(* type cannot be the DTO class; the compiler in use decides what stands   *)
(* in its place.                                                           *)
(***************************************************************************)

\* what a build records for a parameter whose class was imported type-only
DesignParamTypes == {"Object", "Function"}

\* String.prototype.trim, for spaces
RECURSIVE trim(_)
trim(s) ==
    IF Len(s) > 0 /\ charAt(s, 1) = " " THEN trim(SubSeq(s, 2, Len(s)))
    ELSE IF Len(s) > 0 /\ charAt(s, Len(s)) = " " THEN trim(SubSeq(s, 1, Len(s) - 1))
    ELSE s

\* the @Transform functions of CreateProductDto on a JSON body: the texts
\* are trimmed; numbers and booleans of a JSON body are what parseFloat,
\* parseInt and Boolean return for them
transformProductDto(value) ==
    [ k \in DOMAIN value |->
        IF k \in {"name", "description", "category"} THEN trim(value[k]) ELSE value[k] ]

\* the first message of the class-validator rules of CreateProductDto that
\* the value breaks, "" when it breaks none; UpdateProductDto is
\* PartialType(CreateProductDto): the same rules, every property optional
validateProductDto(metatype, value) ==
    LET given(k) == k \in DOMAIN value
        missing(k) == metatype = "CreateProductDto" /\ ~given(k)
    IN  IF DOMAIN value \ {"name", "description", "price", "stock", "category", "isActive"} # {}
        THEN "property should not exist"
        ELSE IF missing("name") \/ (given("name") /\ value.name = "")
        THEN "Name is required"
        ELSE IF given("name") /\ Len(value.name) > 100
        THEN "Name must be between 1 and 100 characters"
        ELSE IF given("description") /\ Len(value.description) \notin 10..500
        THEN "Description must be between 10 and 500 characters"
        ELSE IF missing("price") THEN "Price is required"
        ELSE IF given("price") /\ value.price <= 0
        THEN "Price must be a positive number"
        ELSE IF given("price") /\ value.price < 1
        THEN "Price must be at least 0.01"
        ELSE IF given("price") /\ value.price > 99999999
        THEN "Price cannot exceed 999,999.99"
        ELSE IF missing("stock") THEN "Stock is required"
        ELSE IF given("stock") /\ value.stock < 0
        THEN "Stock cannot be negative"
        ELSE IF given("stock") /\ value.stock > 999999
        THEN "Stock cannot exceed 999,999"
        ELSE IF missing("category") \/ (given("category") /\ value.category = "")
        THEN "Category is required"
        ELSE IF given("category") /\ Len(value.category) > 50
        THEN "Category must be between 1 and 50 characters"
        ELSE IF missing("isActive") THEN "isActive is required"
        ELSE ""

\* ValidationPipe.transform(value, {metatype}): the value the handler is
\* given, or the message the request is refused with.  Object is one of the
\* types the pipe does not validate; for Function the validator knows no
\* property, and with whitelist and forbidNonWhitelisted it refuses every
\* property the body has; for a DTO class the body is transformed and then
\* validated.
ValidationPipe(metatype, value) ==
    IF metatype = "Object"
    THEN [ok |-> TRUE, value |-> value]
    ELSE IF metatype = "Function"
    THEN IF DOMAIN value = {}
         THEN [ok |-> TRUE, value |-> value]
         ELSE [ok |-> FALSE, message |-> "property should not exist"]
    ELSE LET entity == transformProductDto(value)
             errors == validateProductDto(metatype, entity)
         IN  IF errors = ""
             THEN [ok |-> TRUE, value |-> entity]
             ELSE [ok |-> FALSE, message |-> errors]

----------------------------------------------------------------------------
(***************************************************************************)
(* The inputs the operations are tried with.                               *)
(***************************************************************************)

\* ids asked for: the first and the last seed id, every id a create has
\* assigned, and the next, unused one
RequestIds == {1} \cup (Len(SeedProducts)..nextId)

CreateInputs ==
    { [ name |-> "Widget", description |-> "A small widget for the bench",
        price |-> 5000, stock |-> 3, category |-> "Tools", isActive |-> TRUE ],
      [ name |-> "gadget", price |-> 1, stock |-> 0,
        category |-> "electronics", isActive |-> FALSE ] }

UpdateInputs ==
    { [price |-> 5000],
      [price |-> 0],
      [name |-> "Renamed", stock |-> 7],
      [category |-> "Laptop", isActive |-> FALSE],
      << >> }

CategoryInputs == { "electronics", "TOOLS" }

QueryInputs ==
    { << >>,
      [category |-> "electronics", sortBy |-> "price", order |-> "ASC"],
      [page |-> 2, limit |-> 1, sortBy |-> "name", order |-> "ASC"],
      [minPrice |-> 95000, maxPrice |-> 130000, search |-> "pro"] }

\* JSON bodies of POST /products: the create inputs, and bodies that the
\* rules of CreateProductDto do not allow
CreateBodies ==
    CreateInputs \cup
    { [ name |-> "Broken", price |-> -500, stock |-> 3,
        category |-> "Tools", isActive |-> TRUE ],
      [ name |-> "Owed", description |-> "More sold than was in stock",
        price |-> 5000, stock |-> -1, category |-> "Tools", isActive |-> TRUE ] }

\* JSON bodies of PATCH /products/:id
UpdateBodies == UpdateInputs \cup { [price |-> -500], [stock |-> -1] }

\* Number(value) for the text of a whole number in decimal digits, with or
\* without a minus sign, and for a number (the handler reads page and limit
\* through Number() and through a division, which convert alike)
RECURSIVE digitsValue(_)
digitsValue(s) ==
    IF Len(s) = 0 THEN 0
    ELSE 10 * digitsValue(SubSeq(s, 1, Len(s) - 1)) + (codeOf[charAt(s, Len(s))] - 48)

Number(text) ==
    IF Len(text) > 0 /\ charAt(text, 1) = "-"
    THEN 0 - digitsValue(SubSeq(text, 2, Len(text)))
    ELSE digitsValue(text)

\* the query as the list handler reads it: page and limit through Number
queryAsRead(value) ==
    [ k \in DOMAIN value |->
        IF k \in {"page", "limit"} THEN Number(value[k]) ELSE value[k] ]

\* query strings of GET /products as the HTTP layer parses them: every
\* value a text
RawQueries ==
    { << >>,
      [page |-> "2"],
      [page |-> "2", limit |-> "1"],
      [page |-> "0"],
      [page |-> "-1"],
      [page |-> "1001"],
      [limit |-> "101"] }

\* category names asked of a drawn catalogue: one that a stored category
\* equals but for case and another contains, one of an inactive product
ListCategories == { "electronics", "Home Electronics" }

\* the largest catalogue the list operations are tried on
MaxCatalog == 3

\* the list requests made on one drawn catalogue: none changes it
MaxListRequests == 1

\* Create data of the products a catalogue is drawn from: two equal prices,
\* two equal stocks, two names equal but for case, an upper-case initial
\* that sorts before a lower-case one, a category inside another, a product
\* without description
CatalogPool ==
    { [ name |-> "apple", description |-> "For professionals",
        price |-> 1000, stock |-> 5, category |-> "Electronics", isActive |-> TRUE ],
      [ name |-> "Zebra",
        price |-> 1000, stock |-> 0, category |-> "Home Electronics", isActive |-> FALSE ],
      [ name |-> "Apple", description |-> "Garden hose",
        price |-> 2500, stock |-> 5, category |-> "Produce", isActive |-> TRUE ],
      [ name |-> "Pro Drill", description |-> "Cordless drill",
        price |-> 500, stock |-> 9, category |-> "Tools", isActive |-> TRUE ] }

\* the filter part of a list query
FilterInputs ==
    { << >>,
      [category |-> "Electronics"],
      [minPrice |-> 1000],
      [maxPrice |-> 1000],
      [search |-> "pro"],
      [category |-> "o", minPrice |-> 1000, search |-> "apple"],
      [category |-> "tool", maxPrice |-> 100] }

\* the sort part of a list query
SortInputs ==
    { << >>,
      [sortBy |-> "name", order |-> "ASC"],
      [sortBy |-> "name", order |-> "DESC"],
      [sortBy |-> "price", order |-> "ASC"],
      [sortBy |-> "price"],
      [sortBy |-> "stock", order |-> "ASC"],
      [order |-> "ASC"] }

\* the page part of a list query
PageInputs ==
    { << >>,
      [page |-> 2, limit |-> 1],
      [page |-> 1, limit |-> 2],
      [page |-> 3, limit |-> 2],
      [page |-> 2] }

\* queries of GET /products: filters and pages alone, and with a sort
ListQueries ==
    FilterInputs \cup PageInputs \cup
    { [search |-> "pro", sortBy |-> "name", order |-> "ASC", page |-> 2, limit |-> 1],
      [category |-> "electronics", sortBy |-> "price", order |-> "DESC", limit |-> 1],
      [minPrice |-> 1000, maxPrice |-> 1000, sortBy |-> "stock", order |-> "DESC",
       page |-> 1, limit |-> 2] }

\* queries of findAll called directly: sorts alone, and with a filter
SortQueries ==
    SortInputs \cup
    { [search |-> "pro", sortBy |-> "stock", order |-> "ASC"],
      [category |-> "electronics", sortBy |-> "price", order |-> "DESC"],
      [category |-> "tool", maxPrice |-> 100, sortBy |-> "name"] }

----------------------------------------------------------------------------
(***************************************************************************)
(* Actions: one per request handler, one per service method called         *)
(* directly (the module exports ProductsService), the clock, and a caller  *)
(* using what it was handed.                                               *)
(***************************************************************************)

Succeeded(out) == out.kind \in {"return", "response"}
Threw(out, exception) == out.kind = "throw" /\ out.exception = exception

\* the object a successful create, update, delete or findById handed back
Returned(out, store) == Deref(out.data[1], store)

\* one operation op of a layer, with arguments args, ending as r
Handle(layer, op, args, r) ==
    /\ nreq < MaxRequests
    /\ nreq' = nreq + 1
    /\ call' = Spread([layer |-> layer, op |-> op], args)
    /\ products' = r.products
    /\ nextId' = r.nextId
    /\ ret' = r.out
    /\ everHeld' = everHeld \cup IdsOf(r.products)
    /\ created' = IF op = "create" /\ Succeeded(r.out)
                  THEN created \cup {Returned(r.out, r.products).id}
                  ELSE created
    /\ deleted' = IF op = "delete" /\ Succeeded(r.out)
                  THEN deleted \cup {args.id}
                  ELSE deleted
    /\ pending' = IF "rid" \in DOMAIN args
                  THEN { p \in pending : p.rid # args.rid }
                  ELSE pending
    /\ answered' = IF "rid" \in DOMAIN args
                   THEN answered \cup
                        { [ request |-> args,
                            kind |-> IF Succeeded(r.out) THEN "ok" ELSE r.out.exception,
                            id |-> IF Succeeded(r.out)
                                   THEN Returned(r.out, r.products).id ELSE 0 ] }
                   ELSE answered
    /\ UNCHANGED now

FindAll ==
    \E query \in QueryInputs :
        Handle("http", "findAll", [query |-> query], controllerFindAll(query))

GetProductById ==
    \E id \in RequestIds :
        Handle("http", "findById", [id |-> id], getProductById(id))

GetProductByCategory ==
    \E categoryName \in CategoryInputs :
        Handle("http", "findByCategory",
               [category |-> categoryName, activeOnly |-> TRUE],
               getProductByCategory(categoryName))

CreateProduct ==
    \E dto \in CreateInputs :
        Handle("http", "create", [body |-> dto], createProduct(dto))

PartialUpdateProduct ==
    \E id \in RequestIds, dto \in UpdateInputs :
        Handle("http", "update", [id |-> id, body |-> dto],
               partialUpdateProduct(id, dto))

DeleteProduct ==
    \E id \in RequestIds :
        Handle("http", "delete", [id |-> id], deleteProduct(id))

ServiceFindAll ==
    \E query \in QueryInputs \cup {Undefined} :
        Handle("service", "findAll", [query |-> query], findAll(query))

ServiceGetCount ==
    \E query \in QueryInputs \cup {Undefined} :
        Handle("service", "getCount", [query |-> query], getCount(query))

ServiceFindById ==
    \E id \in RequestIds :
        Handle("service", "findById", [id |-> id], findById(id))

ServiceFindByCategory ==
    \E category \in CategoryInputs, activeOnly \in BOOLEAN :
        Handle("service", "findByCategory",
               [category |-> category, activeOnly |-> activeOnly],
               findByCategory(category, activeOnly))

ServiceCreate ==
    \E data \in CreateInputs :
        Handle("service", "create", [body |-> data], create(data))

ServiceUpdate ==
    \E id \in RequestIds, data \in UpdateInputs :
        Handle("service", "update", [id |-> id, body |-> data], update(id, data))

ServiceDelete ==
    \E id \in RequestIds :
        Handle("service", "delete", [id |-> id], delete(id))

\* time passes
Tick ==
    /\ now < ClockStart + MaxTicks
    /\ now' = now + 1
    /\ UNCHANGED <<products, nextId, call, ret, nreq, everHeld, created, deleted,
                   pending, answered>>

\* what a caller may assign to a Product it holds
CallerWrites == { [price |-> -1], [name |-> "overwritten"] }

\* the caller of the service assigns to a property of an object it was handed
CallerAssignsProperty ==
    /\ nreq < MaxRequests
    /\ Succeeded(ret)
    /\ \E k \in 1..Len(ret.data), w \in CallerWrites :
          LET h == ret.data[k] IN
          /\ call' = [layer |-> "caller", op |-> "mutate", target |-> "object", write |-> w]
          /\ IF "ref" \in DOMAIN h
             THEN /\ products' = [products EXCEPT ![h.ref] = Spread(@, w)]
                  /\ ret' = ret
             ELSE /\ products' = products
                  /\ ret' = [ret EXCEPT !.data[k] = Obj(Spread(h.obj, w))]
    /\ nreq' = nreq + 1
    /\ everHeld' = everHeld \cup IdsOf(products')
    /\ UNCHANGED <<nextId, now, created, deleted, pending, answered>>

\* the caller of the service removes the first element of an array it was handed
CallerShiftsArray ==
    /\ nreq < MaxRequests
    /\ Succeeded(ret)
    /\ ret.shape = "list"
    /\ Len(ret.data) > 0
    /\ call' = [layer |-> "caller", op |-> "mutate", target |-> "array"]
    /\ ret' = [ret EXCEPT !.data = Tail(@)]
    /\ nreq' = nreq + 1
    /\ UNCHANGED <<products, nextId, now, everHeld, created, deleted, pending, answered>>

\* the deployed program: requests to the controller
Next ==
    \/ FindAll
    \/ GetProductById
    \/ GetProductByCategory
    \/ CreateProduct
    \/ PartialUpdateProduct
    \/ DeleteProduct
    \/ Tick

Spec == Init /\ [][Next]_vars

\* the service on its own: its public methods called directly
NextService ==
    \/ ServiceFindAll
    \/ ServiceGetCount
    \/ ServiceFindById
    \/ ServiceFindByCategory
    \/ ServiceCreate
    \/ ServiceUpdate
    \/ ServiceDelete
    \/ Tick

SpecService == Init /\ [][NextService]_vars

\* the service and a caller that writes to what it was handed
NextCaller ==
    \/ NextService
    \/ CallerAssignsProperty
    \/ CallerShiftsArray

SpecCaller == Init /\ [][NextCaller]_vars

\* A catalogue as create and delete leave it: the seeds deleted, up to
\* MaxCatalog products of the pool created in some order at instants that
\* do not go back, the counter past every id given out.
InitList ==
    /\ \E n \in 0..MaxCatalog :
         \E items \in [1..n -> CatalogPool], dates \in [1..n -> {ClockStart, ClockStart + 1}] :
            /\ \A i \in 1..n, j \in 1..n :
                  i < j => items[i] # items[j] /\ dates[i] <= dates[j]
            /\ products =
                  [ i \in 1..n |->
                       Spread(Spread([id |-> SeedNextId + i - 1], items[i]),
                              [createdAt |-> dates[i], updatedAt |-> dates[i]]) ]
            /\ nextId = SeedNextId + n
            /\ everHeld = 1..(SeedNextId + n - 1)
            /\ created = 1..(SeedNextId + n - 1)
    /\ deleted = IdsOf(SeedProducts)
    /\ now = ClockStart + 1
    /\ call = [layer |-> "none", op |-> "constructor"]
    /\ ret = [kind |-> "none"]
    /\ nreq = 0
    /\ pending = {}
    /\ answered = {}

\* GET /products on a drawn catalogue
ListFindAll ==
    \E query \in ListQueries :
        /\ nreq < MaxListRequests
        /\ Handle("http", "findAll", [query |-> query], controllerFindAll(query))

\* productsService.findAll(query) on a drawn catalogue
ListServiceFindAll ==
    \E query \in SortQueries \cup {Undefined} :
        /\ nreq < MaxListRequests
        /\ Handle("service", "findAll", [query |-> query], findAll(query))

\* the type recorded for the DTO parameters: one per build, so the one the
\* pipe of an earlier request of this run was given
BuildParamTypes ==
    IF "metatype" \in DOMAIN call THEN {call.metatype} ELSE DesignParamTypes

\* POST /products, through the global pipe
PostProduct ==
    \E body \in CreateBodies, metatype \in BuildParamTypes :
        LET piped == ValidationPipe(metatype, body) IN
        Handle("http", "create", [body |-> body, metatype |-> metatype],
               IF piped.ok THEN createProduct(piped.value)
               ELSE Keep(BadRequestException(piped.message)))

\* PATCH /products/:id, through the global pipe
PatchProduct ==
    \E id \in RequestIds, body \in UpdateBodies, metatype \in BuildParamTypes :
        LET piped == ValidationPipe(metatype, body) IN
        Handle("http", "update", [id |-> id, body |-> body, metatype |-> metatype],
               IF piped.ok THEN partialUpdateProduct(id, piped.value)
               ELSE Keep(BadRequestException(piped.message)))

\* GET /products, through the global pipe
GetProducts ==
    \E query \in RawQueries, metatype \in BuildParamTypes :
        LET piped == ValidationPipe(metatype, query) IN
        Handle("http", "findAll", [query |-> query, metatype |-> metatype],
               IF piped.ok THEN controllerFindAll(queryAsRead(piped.value))
               ELSE Keep(BadRequestException(piped.message)))

\* GET /products/category/:categoryName on a drawn catalogue
ListGetProductByCategory ==
    \E categoryName \in ListCategories :
        /\ nreq < MaxListRequests
        /\ Handle("http", "findByCategory",
                  [category |-> categoryName, activeOnly |-> TRUE],
                  getProductByCategory(categoryName))

\* productsService.findByCategory(category, activeOnly) on a drawn catalogue
ListServiceFindByCategory ==
    \E category \in ListCategories, activeOnly \in BOOLEAN :
        /\ nreq < MaxListRequests
        /\ Handle("service", "findByCategory",
                  [category |-> category, activeOnly |-> activeOnly],
                  findByCategory(category, activeOnly))

\* the list operations on drawn catalogues
NextList ==
    \/ ListFindAll
    \/ ListServiceFindAll
    \/ ListGetProductByCategory
    \/ ListServiceFindByCategory

SpecList == InitList /\ [][NextList]_vars

\* requests as they arrive, through the global pipe
NextRequests ==
    \/ PostProduct
    \/ PatchProduct
    \/ GetProducts
    \/ Tick

SpecRequests == Init /\ [][NextRequests]_vars

----------------------------------------------------------------------------
(***************************************************************************)
(* Properties.  A step that handles one operation is told from a tick of   *)
(* the clock by the request count.                                         *)
(***************************************************************************)

\* this step handles one operation named op
Step(op) == nreq' = nreq + 1 /\ call'.op = op

UniqueIds ==
    \A i, j \in 1..Len(products) : i # j => products[i].id # products[j].id

\* C1: after any sequence of create, update and delete no two products in
\* the store share an id, and the id a create returns was never held by any
\* product before (seed ids and ids of deleted products included).
C1_IdUniqueForLife ==
    /\ [](UniqueIds)
    /\ [][ (Step("create") /\ Succeeded(ret'))
             => Returned(ret', products').id \notin everHeld ]_vars

\* a create has answered after a delete removed a product
C1_Witness ==
    /\ call.op = "create"
    /\ Succeeded(ret)
    /\ deleted # {}
    /\ Returned(ret, products).id \notin deleted

\* C2: a rejected mutation (update or delete failing with not-found, a PATCH
\* rejected for a price <= 0) leaves the product list, every record and the
\* id counter exactly as they were.
C2_RejectedMutationLeavesStore ==
    [][ ((Step("update") \/ Step("delete")) /\ ret'.kind = "throw")
          => (products' = products /\ nextId' = nextId) ]_vars

\* a PATCH was rejected for its price after the store had been changed
C2_Witness ==
    /\ call.op = "update"
    /\ Threw(ret, "BadRequestException")
    /\ call.body.price <= 0
    /\ products # SeedProducts

\* C3: a successful update(id, partial) changes only the keys of partial and
\* updatedAt on the record with that id; id, createdAt and every other key
\* keep their values, updatedAt does not go back, and every other record is
\* unchanged.
C3_UpdateChangesOnlyNamedFields ==
    [][ (Step("update") /\ Succeeded(ret'))
          => LET id == call'.id
                 partial == call'.body
                 i == findIndex(products, id)
                 before == products[i]
                 after == products'[i]
             IN  /\ i # -1
                 /\ Len(products') = Len(products)
                 /\ \A j \in 1..Len(products) : j # i => products'[j] = products[j]
                 /\ DOMAIN after = (DOMAIN before) \cup (DOMAIN partial)
                 /\ \A k \in DOMAIN partial : after[k] = partial[k]
                 /\ \A k \in (DOMAIN before) \ ((DOMAIN partial) \cup {"updatedAt"}) :
                        after[k] = before[k]
                 /\ after.id = before.id
                 /\ after.createdAt = before.createdAt
                 /\ after.updatedAt >= before.updatedAt
                 /\ Returned(ret', products') = after
                 /\ nextId' = nextId ]_vars

\* update(1, {price: 50}) has answered: the record has the new price and its
\* old name
C3_Witness ==
    /\ call.op = "update"
    /\ Succeeded(ret)
    /\ call.body = [price |-> 5000]
    /\ Returned(ret, products).price = 5000
    /\ Returned(ret, products).name = "MacBook Pro 16-inch"
    /\ Returned(ret, products).updatedAt > Returned(ret, products).createdAt

\* C4: update(id, partial) rejects a provided price <= 0 with a validation
\* error before mutating, by whatever path update is reached: no update
\* that carries a price <= 0 changes a stored record.
C4_UpdateRejectsNonPositivePrice ==
    [][ (Step("update")
           /\ "price" \in DOMAIN call'.body
           /\ call'.body.price <= 0)
          => (Threw(ret', "BadRequestException") /\ products' = products) ]_vars

\* what findById(id) gives its caller: the record, or the exception
ReadById(id) ==
    LET r == findById(id) IN
    IF Succeeded(r.out) THEN Returned(r.out, r.products) ELSE r.out

\* what findAll() gives its caller: the records, in order
ReadAll ==
    LET r == findAll(Undefined) IN
    [k \in 1..Len(r.out.data) |-> Deref(r.out.data[k], r.products)]

\* C5: what the read operations and create, update and delete hand to the
\* caller cannot be used to change the store: a caller that modifies a
\* returned record or a returned list does not change what a later findById
\* or findAll returns.
C5_ReturnedValuesDoNotAliasStore ==
    [][ Step("mutate")
          => /\ ReadAll' = ReadAll
             /\ \A id \in 1..nextId : ReadById(id)' = ReadById(id) ]_vars

\* C6: create(data) returns a record whose id is the counter before the
\* call, whose other keys are exactly those of data, and whose createdAt
\* equals updatedAt; the store is the previous list with that record appended
\* last, and the counter is one greater.
C6_CreateAppendsNewRecord ==
    [][ Step("create")
          => /\ Succeeded(ret')
             /\ LET data == call'.body
                    record == Returned(ret', products')
                IN  /\ record.id = nextId
                    /\ DOMAIN record = (DOMAIN data) \cup {"id", "createdAt", "updatedAt"}
                    /\ \A k \in DOMAIN data : record[k] = data[k]
                    /\ record.createdAt = record.updatedAt
                    /\ record.createdAt = now
                    /\ Len(products') = Len(products) + 1
                    /\ products'[Len(products')] = record
                    /\ \A i \in 1..Len(products) : products'[i] = products[i]
                    /\ nextId' = nextId + 1 ]_vars

\* a create without a description has answered after another create
C6_Witness ==
    /\ call.op = "create"
    /\ Succeeded(ret)
    /\ "description" \notin DOMAIN Returned(ret, products)
    /\ Returned(ret, products).id = SeedNextId + 1
    /\ Len(products) > Len(SeedProducts)

\* C7: create(D) followed at once by findById(returned id) succeeds and
\* yields a record with every field of D, the assigned id, and createdAt
\* equal to updatedAt.
C7_CreateThenFindById ==
    [][ (/\ call.op = "create"
         /\ Succeeded(ret)
         /\ Step("findById")
         /\ call'.id = Returned(ret, products).id)
          => /\ Succeeded(ret')
             /\ LET D == call.body
                    record == Returned(ret', products')
                IN  /\ record.id = call'.id
                    /\ \A k \in DOMAIN D : record[k] = D[k]
                    /\ record.createdAt = record.updatedAt ]_vars

\* findById has answered with a created record, a delete having come first
C7_Witness ==
    /\ call.op = "findById"
    /\ Succeeded(ret)
    /\ Returned(ret, products).id >= SeedNextId
    /\ deleted # {}

\* C8: once delete(id) has succeeded, every later findById(id), update(id)
\* and delete(id) fails with not-found, whatever happens in between.
C8_DeletedIdStaysGone ==
    [][ ((Step("findById") \/ Step("update") \/ Step("delete"))
           /\ call'.id \in deleted)
          => Threw(ret', "NotFoundException") ]_vars

\* an update of a deleted id has failed after a create in between
C8_Witness ==
    /\ call.op = "update"
    /\ call.id \in deleted
    /\ Threw(ret, "NotFoundException")
    /\ nextId > SeedNextId

\* C9: a successful delete(id) removes exactly the record with that id and
\* returns it as stored: the store is one shorter, the other records are
\* unchanged and in the same order, and the id counter is unchanged.
C9_DeleteRemovesExactlyOne ==
    [][ (Step("delete") /\ Succeeded(ret'))
          => LET i == findIndex(products, call'.id) IN
             /\ i # -1
             /\ Returned(ret', products') = products[i]
             /\ Returned(ret', products').id = call'.id
             /\ Len(products') = Len(products) - 1
             /\ \A j \in 1..(i - 1) : products'[j] = products[j]
             /\ \A j \in i..Len(products') : products'[j] = products[j + 1]
             /\ call'.id \notin IdsOf(products')
             /\ nextId' = nextId ]_vars

\* the first record was deleted and three remain behind it
C9_Witness ==
    /\ call.op = "delete"
    /\ Succeeded(ret)
    /\ Returned(ret, products).id = 1
    /\ Len(products) >= 3
    /\ products[1].id = 2

\* C10: findById(id) returns the stored record with that id exactly when one
\* is in the store, and otherwise fails with a not-found error naming the id;
\* it succeeds exactly for the ids created or seeded and not yet deleted.
C10_FindByIdFindsExactlyTheLive ==
    [][ Step("findById")
          => LET id == call'.id IN
             /\ Succeeded(ret') <=> id \in IdsOf(products)
             /\ Succeeded(ret') <=> id \in created \ deleted
             /\ Succeeded(ret')
                  => /\ \E i \in 1..Len(products) : products[i] = Returned(ret', products')
                     /\ Returned(ret', products').id = id
             /\ ~Succeeded(ret')
                  => /\ Threw(ret', "NotFoundException")
                     /\ includes(ret'.message, ToString(id))
             /\ products' = products ]_vars

\* findById has failed for an id that a create had assigned
C10_Witness ==
    /\ call.op = "findById"
    /\ Threw(ret, "NotFoundException")
    /\ call.id \in created
    /\ call.id >= SeedNextId

----------------------------------------------------------------------------
\* C11: in every reachable state every stored product has updatedAt >=
\* createdAt; a record made by create carries the clock's instant in both
\* stamps, and the createdAt of a product that is in the store before and
\* after a step is the same, whatever the step (create, update, delete or a
\* read), the clock never going back.
C11_UpdatedNotBeforeCreated ==
    /\ [](\A i \in 1..Len(products) : products[i].updatedAt >= products[i].createdAt)
    /\ [][ /\ \A i \in 1..Len(products), j \in 1..Len(products') :
                products'[j].id = products[i].id
                    => products'[j].createdAt = products[i].createdAt
           /\ Step("create") /\ Succeeded(ret')
                => /\ Returned(ret', products').createdAt = now
                   /\ Returned(ret', products').updatedAt = now
           /\ now' >= now ]_vars

\* a product made by create has been updated at a later instant
C11_Witness ==
    /\ call.op = "update"
    /\ Succeeded(ret)
    /\ Returned(ret, products).id \notin IdsOf(SeedProducts)
    /\ Returned(ret, products).updatedAt > Returned(ret, products).createdAt

----------------------------------------------------------------------------
\* the body carries a negative price or a negative stock
CarriesNegative(body) ==
    \/ "price" \in DOMAIN body /\ body.price < 0
    \/ "stock" \in DOMAIN body /\ body.stock < 0

\* C12: in every state reached through POST and PATCH requests every stored
\* product has price >= 0 and stock >= 0, and a POST or PATCH whose body
\* carries a negative price or a negative stock is refused and leaves the
\* store as it was.
C12_PriceAndStockNeverNegative ==
    /\ [](\A i \in 1..Len(products) :
             products[i].price >= 0 /\ products[i].stock >= 0)
    /\ [][ ((Step("create") \/ Step("update")) /\ CarriesNegative(call'.body))
              => (ret'.kind = "throw" /\ products' = products /\ nextId' = nextId) ]_vars

----------------------------------------------------------------------------
\* a filter of the query is active: given, and for a text not empty
Active(query, k) ==
    k \in DOMAIN query /\ (k \in {"category", "search"} => query[k] # "")

\* the record p passes every active filter of the query
Passes(p, query) ==
    LET description == IF "description" \in DOMAIN p THEN p.description ELSE ""
        searchFor == toLowerCase(query.search)
    IN  /\ Active(query, "category")
            => includes(toLowerCase(p.category), toLowerCase(query.category))
        /\ Active(query, "minPrice") => p.price >= query.minPrice
        /\ Active(query, "maxPrice") => p.price <= query.maxPrice
        /\ Active(query, "search")
            => \/ includes(toLowerCase(p.name), searchFor)
               \/ includes(toLowerCase(description), searchFor)
               \/ includes(toLowerCase(p.category), searchFor)

\* the slots of the store whose record passes every active filter
PassingSlots(query) == { i \in 1..Len(products) : Passes(products[i], query) }

\* the state follows a GET /products that was answered
ListedByHttp == call.layer = "http" /\ call.op = "findAll" /\ Succeeded(ret)

\* the state follows a findAll(query) of the service, a query given
ListedByService ==
    call.layer = "service" /\ call.op = "findAll" /\ call.query # Undefined

\* C13: the totalItems of a list response is the number of stored records
\* that pass every active filter of the query (category and minPrice and
\* maxPrice and search; search on name or description or category, no
\* description counting as empty), and the same query with any other
\* sortBy, order, page and limit reports the same totalItems.
C13_TotalItemsCountsFiltered ==
    ListedByHttp =>
        /\ ret.pagination.totalItems = Cardinality(PassingSlots(call.query))
        /\ \A s \in SortInputs, p \in PageInputs :
              controllerFindAll(Spread(Spread(call.query, s), p)).out.pagination.totalItems
                  = ret.pagination.totalItems

\* three filters were active; a record passed each of them singly and was
\* still left out, a record without description was looked at, a record
\* passed all
C13_Witness ==
    /\ ListedByHttp
    /\ Cardinality({ k \in {"category", "minPrice", "maxPrice", "search"} :
                        Active(call.query, k) }) >= 3
    /\ ret.pagination.totalItems >= 1
    /\ ret.pagination.totalItems < Len(products)
    /\ \E i \in 1..Len(products) : "description" \notin DOMAIN products[i]
    /\ \E i \in 1..Len(products) :
          /\ i \notin PassingSlots(call.query)
          /\ \E k \in DOMAIN call.query : i \in PassingSlots([j \in {k} |-> call.query[k]])

----------------------------------------------------------------------------
\* the query without its key k
Without(query, k) == [j \in DOMAIN query \ {k} |-> query[j]]

\* the elements of a sequence
Range(seq) == { seq[k] : k \in 1..Len(seq) }

\* the slots of the store that a returned list holds
ReturnedSlots(out) == { out.data[k].ref : k \in 1..Len(out.data) }

\* C14: a list request with a category keeps, of the records the rest of
\* the query keeps, exactly those whose lower-cased category contains the
\* lower-cased query category as a substring; every list request does so
\* (GET /products and findAll alike), an equal category being one case of it.
C14_CategoryFilterIsSubstring ==
    ((ListedByHttp \/ ListedByService) /\ Active(call.query, "category")) =>
        LET kept ==
                { i \in Range(findAllSlots(Without(call.query, "category"))) :
                     includes(toLowerCase(products[i].category),
                              toLowerCase(call.query.category)) }
        IN  /\ Range(findAllSlots(call.query)) = kept
            /\ ListedByService => ReturnedSlots(ret) = kept
            /\ ListedByHttp => ret.pagination.totalItems = Cardinality(kept)

\* a category query was answered with a record whose category only contains
\* it, with a record whose category equals it but for case, and without a
\* record whose category does not contain it
C14_Witness ==
    /\ ListedByService
    /\ Active(call.query, "category")
    /\ \E i \in ReturnedSlots(ret) :
          toLowerCase(products[i].category) # toLowerCase(call.query.category)
    /\ \E i \in ReturnedSlots(ret) :
          toLowerCase(products[i].category) = toLowerCase(call.query.category)
    /\ ReturnedSlots(ret) # 1..Len(products)

----------------------------------------------------------------------------
\* one more filter to add to a query
ExtraFilters ==
    { [category |-> "electronics"], [category |-> "tool"],
      [minPrice |-> 1000], [minPrice |-> 2500],
      [maxPrice |-> 1000], [maxPrice |-> 100],
      [search |-> "pro"], [search |-> "apple"] }

\* the filters the query makes active
ActiveFilters(query) ==
    { k \in {"category", "minPrice", "maxPrice", "search"} : Active(query, k) }

\* C15: what a list request returns for the query q holds every record that
\* it returns for q with one more filter (category, minPrice, maxPrice or
\* search) made active, so a further filter never adds a record nor raises
\* the count; with no filter active every stored record is returned.
C15_FilteringIsMonotonic ==
    (ListedByHttp \/ ListedByService) =>
        LET base == Range(findAllSlots(call.query)) IN
        /\ ListedByService => ReturnedSlots(ret) = base
        /\ ListedByHttp => ret.pagination.totalItems = Cardinality(base)
        /\ \A f \in ExtraFilters :
              DOMAIN f \cap ActiveFilters(call.query) = {}
                  => /\ Range(findAllSlots(Spread(call.query, f))) \subseteq base
                     /\ Len(findAllSlots(Spread(call.query, f))) <= Len(findAllSlots(call.query))
        /\ ActiveFilters(call.query) = {} => base = 1..Len(products)

\* a query with an active filter returned records, and one more filter
\* leaves some of them and not all
C15_Witness ==
    /\ ListedByService
    /\ ActiveFilters(call.query) # {}
    /\ \E f \in ExtraFilters :
          /\ DOMAIN f \cap ActiveFilters(call.query) = {}
          /\ Range(findAllSlots(Spread(call.query, f))) # {}
          /\ Range(findAllSlots(Spread(call.query, f))) # ReturnedSlots(ret)

----------------------------------------------------------------------------
\* the sort key and the order a query asks for
SortByOf(query) == IF "sortBy" \in DOMAIN query THEN query.sortBy ELSE "createdAt"
OrderOf(query) == IF "order" \in DOMAIN query THEN query.order ELSE "DESC"

\* the key of p is below the key of q: numbers and instants by value, names
\* by their lower-cased text
KeyLess(p, q, sortBy) ==
    IF sortBy = "name"
    THEN stringLess(toLowerCase(p.name), toLowerCase(q.name))
    ELSE p[sortBy] < q[sortBy]

\* the slots of the store in a returned list, in its order
ReturnedSeq(out) == [k \in 1..Len(out.data) |-> out.data[k].ref]

\* C16: the list findAll(query) returns holds each record that passes the
\* filters once and no other, in the order of the chosen key: no record is
\* followed by one of a lower key under ASC, nor by one of a higher key
\* under DESC; price and stock compare as numbers, createdAt as instants,
\* name by its lower-cased value.
C16_FindAllIsSortedPermutation ==
    ListedByService =>
        LET r == ReturnedSeq(ret)
            sortBy == SortByOf(call.query)
        IN  /\ Range(r) = PassingSlots(call.query)
            /\ Len(r) = Cardinality(PassingSlots(call.query))
            /\ \A k, l \in 1..Len(r) :
                  k < l =>
                     IF OrderOf(call.query) = "ASC"
                     THEN ~KeyLess(products[r[l]], products[r[k]], sortBy)
                     ELSE ~KeyLess(products[r[k]], products[r[l]], sortBy)

\* a list sorted by name in which a name with an upper-case initial follows
\* a name in lower case that it would precede as written, and records were
\* moved from their store order
C16_Witness ==
    /\ ListedByService
    /\ SortByOf(call.query) = "name"
    /\ OrderOf(call.query) = "ASC"
    /\ \E k, l \in 1..Len(ret.data) :
          /\ k < l
          /\ stringLess(products[ret.data[l].ref].name, products[ret.data[k].ref].name)
          /\ ret.data[l].ref < ret.data[k].ref

----------------------------------------------------------------------------
\* the records in the slots i and j have equal sort keys
SameKey(i, j, sortBy) ==
    /\ ~KeyLess(products[i], products[j], sortBy)
    /\ ~KeyLess(products[j], products[i], sortBy)

\* the place of x in a sequence without repeats
PlaceIn(seq, x) == CHOOSE k \in 1..Len(seq) : seq[k] = x

\* the query with the other order
Flipped(query) ==
    Spread(query, [order |-> IF OrderOf(query) = "ASC" THEN "DESC" ELSE "ASC"])

\* C17: in the list findAll(query) returns, under ASC and under DESC,
\* records of equal sort keys stand in their store order; sorting the
\* returned list again by the same key and order gives the same sequence;
\* and in the list of the same query with the other order two records of
\* distinct keys stand the other way round, two records of equal keys the
\* same way round.
C17_SortIsStable ==
    ListedByService =>
        LET r == ReturnedSeq(ret)
            sortBy == SortByOf(call.query)
            flipped == findAllSlots(Flipped(call.query))
        IN  /\ \A k, l \in 1..Len(r) :
                  (k < l /\ SameKey(r[k], r[l], sortBy)) => r[k] < r[l]
            /\ \A k, l \in 1..Len(flipped) :
                  (k < l /\ SameKey(flipped[k], flipped[l], sortBy))
                      => flipped[k] < flipped[l]
            /\ applySorting(r, call.query) = r
            /\ Range(flipped) = Range(r)
            /\ \A k, l \in 1..Len(r) :
                  k < l =>
                     IF SameKey(r[k], r[l], sortBy)
                     THEN PlaceIn(flipped, r[k]) < PlaceIn(flipped, r[l])
                     ELSE PlaceIn(flipped, r[l]) < PlaceIn(flipped, r[k])

\* a list in DESC order that holds two records of equal keys and, before
\* them, a record of a higher key that the store holds after them
C17_Witness ==
    /\ ListedByService
    /\ OrderOf(call.query) = "DESC"
    /\ \E k, l, m \in 1..Len(ret.data) :
          /\ k < l /\ l < m
          /\ ~SameKey(ret.data[k].ref, ret.data[l].ref, SortByOf(call.query))
          /\ SameKey(ret.data[l].ref, ret.data[m].ref, SortByOf(call.query))
          /\ ret.data[l].ref < ret.data[k].ref

----------------------------------------------------------------------------
\* the keys a list can be sorted by, and the orders
SortKeys == {"name", "price", "createdAt", "stock"}
Orders == {"ASC", "DESC"}

\* C18: for every two stored records, every sort key and every order, the
\* comparator of the list sort gives compare(a, b) = -compare(b, a), and it
\* gives 0 exactly when the two keys are equal: equal keys compare as 0 in
\* both argument orders and never as 1 or -1.
C18_ComparatorConsistentWithEquality ==
    ListedByService =>
        \A i, j \in 1..Len(products), sortBy \in SortKeys, order \in Orders :
            LET ab == compare(products[i], products[j], sortBy, order)
                ba == compare(products[j], products[i], sortBy, order)
            IN  /\ ab \in {-1, 0, 1}
                /\ ab = -ba
                /\ SameKey(i, j, sortBy) <=> ab = 0

\* a sort by price has compared two distinct records of equal price, and a
\* record of another price with them
C18_Witness ==
    /\ ListedByService
    /\ SortByOf(call.query) = "price"
    /\ \E i, j, k \in ReturnedSlots(ret) :
          /\ i # j
          /\ products[i].price = products[j].price
          /\ products[k].price # products[i].price
          /\ compare(products[i], products[j], "price", OrderOf(call.query)) = 0

----------------------------------------------------------------------------
\* the page and the limit a list request asks for
PageOf(query) == IF "page" \in DOMAIN query THEN query.page ELSE 1
LimitOf(query) == IF "limit" \in DOMAIN query THEN query.limit ELSE 10

\* the state follows a GET /products, answered or not
AskedList == call.layer = "http" /\ call.op = "findAll"

\* C19: when some record passes the filters, a list request for a page above
\* the number of pages (the count of passing records over the limit, rounded
\* up) or below 1 is not answered with a success: it fails with an error.
C19_OutOfRangePageFails ==
    LET totalItems == Cardinality(PassingSlots(call.query))
        totalPages == (totalItems + LimitOf(call.query) - 1) \div LimitOf(call.query)
    IN  (/\ AskedList
         /\ totalItems > 0
         /\ (PageOf(call.query) > totalPages \/ PageOf(call.query) < 1))
            => /\ ~Succeeded(ret)
               /\ ret.kind = "throw"

----------------------------------------------------------------------------
\* C20: when no stored record passes the filters, a list request for page 1
\* is answered with success, an empty data array, totalItems 0, totalPages
\* 0, hasNextPage false and hasPreviousPage false; it is not refused.
C20_EmptyResultPageOneSucceeds ==
    (/\ AskedList
     /\ PassingSlots(call.query) = {}
     /\ PageOf(call.query) = 1)
        => /\ Succeeded(ret)
           /\ ret.success
           /\ ret.data = << >>
           /\ ret.pagination.currentPage = 1
           /\ ret.pagination.totalItems = 0
           /\ ret.pagination.totalPages = 0
           /\ ~ret.pagination.hasNextPage
           /\ ~ret.pagination.hasPreviousPage

\* page 1 was asked of a catalogue that holds products, none of which
\* passes the filters
C20_Witness ==
    /\ AskedList
    /\ Succeeded(ret)
    /\ Len(products) > 0
    /\ ActiveFilters(call.query) # {}
    /\ PassingSlots(call.query) = {}
    /\ PageOf(call.query) = 1
    /\ ret.pagination.totalPages = 0

----------------------------------------------------------------------------
\* the data of the pages 1..n of the list request with the query, one after
\* the other
RECURSIVE PagesUpTo(_, _)
PagesUpTo(query, n) ==
    IF n = 0 THEN << >>
    ELSE PagesUpTo(query, n - 1)
            \o controllerFindAll(Spread(query, [page |-> n])).out.data

\* C21: for the store, the filters, the sort and the limit of an answered
\* list request, the data of pages 1 to totalPages put one after the other
\* is the full ordered filtered list that findAll(query) returns: no record
\* is left out, none appears twice, and the order is kept; the answered page
\* is its own part of it.
C21_PagesCoverFilteredList ==
    ListedByHttp =>
        LET full == findAll(call.query).out.data
            pages == PagesUpTo(call.query, ret.pagination.totalPages)
            start == (PageOf(call.query) - 1) * LimitOf(call.query)
        IN  /\ pages = full
            /\ Len(pages) = Cardinality(Range(pages))
            /\ Range(pages) = { Ref(i) : i \in PassingSlots(call.query) }
            /\ \A k \in 1..Len(ret.data) : ret.data[k] = pages[start + k]

\* a full page was answered of a list of several pages whose last page is
\* not full
C21_Witness ==
    /\ ListedByHttp
    /\ ret.pagination.totalPages >= 2
    /\ ret.pagination.totalItems % LimitOf(call.query) # 0
    /\ Len(ret.data) = LimitOf(call.query)
    /\ Len(PagesUpTo(call.query, ret.pagination.totalPages)) = ret.pagination.totalItems

----------------------------------------------------------------------------
\* C22: in every list response totalItems is the length of the ordered
\* filtered list, totalPages is totalItems / limit rounded up (the least
\* count of pages of limit records that hold totalItems records, 0 for
\* none), currentPage is the page asked for, itemPerPage the limit asked
\* for, hasNextPage says currentPage < totalPages and hasPreviousPage says
\* currentPage > 1.
C22_PageMetadata ==
    ListedByHttp =>
        LET p == ret.pagination
            limit == LimitOf(call.query)
        IN  /\ DOMAIN p = { "currentPage", "itemPerPage", "totalItems",
                            "totalPages", "hasNextPage", "hasPreviousPage" }
            /\ p.totalItems = Len(findAll(call.query).out.data)
            /\ p.totalItems = Cardinality(PassingSlots(call.query))
            /\ p.totalPages >= 0
            /\ p.totalPages * limit >= p.totalItems
            /\ p.totalPages > 0 => (p.totalPages - 1) * limit < p.totalItems
            /\ p.totalItems = 0 => p.totalPages = 0
            /\ p.currentPage = PageOf(call.query)
            /\ p.itemPerPage = limit
            /\ p.hasNextPage <=> (p.currentPage < p.totalPages)
            /\ p.hasPreviousPage <=> (p.currentPage > 1)

\* a response whose last page is not full and that has a next page
C22_Witness ==
    /\ ListedByHttp
    /\ ret.pagination.totalItems % ret.pagination.itemPerPage # 0
    /\ ret.pagination.totalPages >= 2
    /\ ret.pagination.hasNextPage
    /\ ~ret.pagination.hasPreviousPage

----------------------------------------------------------------------------
\* C23: the data of a list response is the part of the ordered filtered
\* list from index (page - 1) * limit up to, not including, the smaller of
\* that index plus limit and totalItems (indices from 0); it holds at most
\* limit records, and exactly limit records on every page before the last.
C23_DataIsThePageSlice ==
    ListedByHttp =>
        LET full == findAll(call.query).out.data
            limit == LimitOf(call.query)
            start == (PageOf(call.query) - 1) * limit
            stop == IF start + limit < Len(full) THEN start + limit ELSE Len(full)
        IN  /\ Len(ret.data) = (IF stop > start THEN stop - start ELSE 0)
            /\ \A k \in 1..Len(ret.data) : ret.data[k] = full[start + k]
            /\ Len(ret.data) <= limit
            /\ PageOf(call.query) < ret.pagination.totalPages
                  => Len(ret.data) = limit

\* the second page of a sorted list, one record of it, records before it
\* and after it
C23_Witness ==
    /\ ListedByHttp
    /\ PageOf(call.query) = 2
    /\ PageOf(call.query) < ret.pagination.totalPages
    /\ Len(ret.data) = LimitOf(call.query)
    /\ ret.data[1] = findAll(call.query).out.data[LimitOf(call.query) + 1]

----------------------------------------------------------------------------
\* the text is given and is not a whole number from low to high
OutsideRange(query, k, low, high) ==
    k \in DOMAIN query /\ Number(query[k]) \notin low..high

\* C24: a list request reaches filtering, sorting and paging only with page
\* a whole number from 1 to 1000 (1 when not given) and limit a whole number
\* from 1 to 100 (10 when not given); a request whose page or limit is zero,
\* negative or above its cap is refused with a validation error (400).
C24_PageAndLimitValidated ==
    (call.layer = "http" /\ call.op = "findAll" /\ "metatype" \in DOMAIN call) =>
        /\ (OutsideRange(call.query, "page", 1, 1000)
              \/ OutsideRange(call.query, "limit", 1, 100))
              => (ret.kind = "throw" /\ ret.statusCode = 400)
        /\ Succeeded(ret)
              => /\ ret.pagination.currentPage \in 1..1000
                 /\ ret.pagination.itemPerPage \in 1..100
                 /\ "page" \notin DOMAIN call.query => ret.pagination.currentPage = 1
                 /\ "limit" \notin DOMAIN call.query => ret.pagination.itemPerPage = 10

----------------------------------------------------------------------------
\* C25: the list findAll returns for a query without sortBy is ordered by
\* createdAt, and for a query without order it is in descending order of
\* its key; with neither given the records come newest first, and records
\* of the same createdAt instant stand in store order.
C25_DefaultSortNewestFirst ==
    ListedByService =>
        LET r == ReturnedSeq(ret)
            q == call.query
            noSortBy == "sortBy" \notin DOMAIN q
            noOrder == "order" \notin DOMAIN q
        IN  \A k, l \in 1..Len(r) :
               k < l =>
                  LET a == products[r[k]]
                      b == products[r[l]]
                  IN  /\ (noSortBy /\ noOrder)
                          => /\ a.createdAt >= b.createdAt
                             /\ a.createdAt = b.createdAt => r[k] < r[l]
                      /\ (noSortBy /\ ~noOrder /\ q.order = "ASC")
                          => a.createdAt <= b.createdAt
                      /\ (noOrder /\ ~noSortBy)
                          => ~KeyLess(a, b, q.sortBy)

\* a query without sortBy and order returned a record created later before
\* one that the store holds before it, and two records of one instant
C25_Witness ==
    /\ ListedByService
    /\ "sortBy" \notin DOMAIN call.query
    /\ "order" \notin DOMAIN call.query
    /\ \E k, l, m \in 1..Len(ret.data) :
          /\ k < l /\ l < m
          /\ products[ret.data[k].ref].createdAt > products[ret.data[l].ref].createdAt
          /\ ret.data[k].ref > ret.data[l].ref
          /\ products[ret.data[l].ref].createdAt = products[ret.data[m].ref].createdAt

----------------------------------------------------------------------------
\* the two texts are equal when the case of their letters is ignored
EqualIgnoringCase(s, t) ==
    /\ Len(s) = Len(t)
    /\ \A k \in 1..Len(s) : lowerOf[charAt(s, k)] = lowerOf[charAt(t, k)]

\* C26: findByCategory(name, activeOnly) returns, in store order, exactly
\* the records whose category equals name when case is ignored (a category
\* that only contains name is left out) and, when activeOnly is true, of
\* these only the active ones; GET /products/category/{name} asks with
\* activeOnly true, so its data holds no inactive product.
C26_FindByCategoryExactMatch ==
    (call.op = "findByCategory" /\ Succeeded(ret)) =>
        LET r == ReturnedSeq(ret)
            activeOnly == call.layer = "http" \/ call.activeOnly
            expected ==
                { i \in 1..Len(products) :
                     /\ EqualIgnoringCase(products[i].category, call.category)
                     /\ activeOnly => products[i].isActive }
        IN  /\ Range(r) = expected
            /\ \A k, l \in 1..Len(r) : k < l => r[k] < r[l]
            /\ call.layer = "http"
                  => /\ \A k \in 1..Len(r) : products[r[k]].isActive
                     /\ ret.category = call.category

\* a category was asked for that one stored record equals but for case and
\* is returned, and that another stored record only contains and is left out
C26_Witness ==
    /\ call.op = "findByCategory"
    /\ call.layer = "service"
    /\ ~call.activeOnly
    /\ \E i \in ReturnedSlots(ret) : products[i].category # call.category
    /\ \E i \in 1..Len(products) :
          /\ i \notin ReturnedSlots(ret)
          /\ includes(toLowerCase(products[i].category), toLowerCase(call.category))

----------------------------------------------------------------------------
\* the ids of the store, in its order
IdSeq(store) == [i \in 1..Len(store) |-> store[i].id]

\* C27: in every reachable state the ids of the store rise strictly along
\* the list and each is below nextId; nextId never goes down; a create puts
\* its record at the end, an update leaves every id at its index, and a
\* delete leaves the remaining ids in the order they had.
C27_StoreInIdOrder ==
    /\ [](/\ \A i, j \in 1..Len(products) :
                i < j => products[i].id < products[j].id
          /\ \A i \in 1..Len(products) : products[i].id < nextId)
    /\ [][ /\ nextId' >= nextId
           /\ (Step("create") /\ Succeeded(ret'))
                 => /\ Len(products') = Len(products) + 1
                    /\ SubSeq(products', 1, Len(products)) = products
                    /\ products'[Len(products')].id = nextId
           /\ (Step("update") /\ Succeeded(ret'))
                 => IdSeq(products') = IdSeq(products)
           /\ (Step("delete") /\ Succeeded(ret'))
                 => \E k \in 1..Len(products) :
                       IdSeq(products') =
                          SubSeq(IdSeq(products), 1, k - 1)
                             \o SubSeq(IdSeq(products), k + 1, Len(products)) ]_vars

\* a record that is not the last was updated in a store that a delete left
\* with a gap in its ids and a create gave a new last id
C27_Witness ==
    /\ call.op = "update"
    /\ Succeeded(ret)
    /\ ret.data[1].ref < Len(products)
    /\ nextId > SeedNextId
    /\ products[Len(products)].id = nextId - 1
    /\ \E i \in 1..(Len(products) - 1) : products[i + 1].id > products[i].id + 1

----------------------------------------------------------------------------
\* the operations that read
ReadOps == {"findAll", "getCount", "findById", "findByCategory"}

\* C28: a call of findAll (whatever its filters, sortBy and order), of
\* getCount, of findById or of findByCategory leaves the store as it was:
\* the same records with the same fields in the same order, and the same
\* nextId; what it returns in another order is another array.
C28_ReadsLeaveStore ==
    [][ (nreq' = nreq + 1 /\ call'.op \in ReadOps)
           => (products' = products /\ nextId' = nextId) ]_vars

\* findAll returned every record of the store in an order that is not the
\* store's
C28_Witness ==
    /\ call.layer = "service"
    /\ call.op = "findAll"
    /\ Len(ret.data) = Len(products)
    /\ \E k \in 1..Len(ret.data) : ret.data[k].ref # k
    /\ \A i, j \in 1..Len(products) : i < j => products[i].id < products[j].id

----------------------------------------------------------------------------
\* C29: PATCH /products/{id} checks the price before it looks the id up: a
\* body with a price <= 0 ends in the validation error (400) whether a
\* product has the id or not, and the not-found error (404) is the answer
\* exactly when the body has no price or a price > 0 and no product has the
\* id.
C29_PriceCheckedBeforeLookup ==
    [][ (Step("update") /\ call'.layer = "http") =>
           LET badPrice == "price" \in DOMAIN call'.body /\ call'.body.price <= 0
               idHeld == call'.id \in IdsOf(products)
           IN  /\ badPrice
                     => /\ Threw(ret', "BadRequestException")
                        /\ ret'.statusCode = 400
                        /\ products' = products
               /\ Threw(ret', "NotFoundException") <=> (~badPrice /\ ~idHeld)
               /\ Succeeded(ret') <=> (~badPrice /\ idHeld) ]_vars

\* a PATCH with price 0 for an id no product has was answered with the
\* validation error
C29_Witness ==
    /\ call.layer = "http"
    /\ call.op = "update"
    /\ "price" \in DOMAIN call.body
    /\ call.body.price <= 0
    /\ call.id \notin IdsOf(products)
    /\ Threw(ret, "BadRequestException")


-----------------------------------------------------------------------------
(***************************************************************************)
(* Requests in flight.  Neither a handler of ProductsController nor a      *)
(* method of ProductsService is async or awaits anything, so the event     *)
(* loop runs the handler of one request from its first statement to its    *)
(* return before it starts the handler of another.  Requests arrive at any *)
(* time and wait in pending; the loop takes them in any order.             *)
(***************************************************************************)

\* the requests clients send while others are in flight
ConcurrentRequests ==
    { [op |-> "create", body |-> dto] : dto \in CreateInputs }
    \cup { [op |-> "update", id |-> SeedNextId, body |-> [price |-> 7000]],
           [op |-> "update", id |-> SeedNextId, body |-> [price |-> 0]],
           [op |-> "delete", id |-> SeedNextId],
           [op |-> "findById", id |-> SeedNextId] }

\* a request arrives; rid numbers the requests in the order of arrival
IssueRequest ==
    LET rid == Cardinality(pending) + Cardinality(answered) + 1 IN
    /\ rid <= MaxRequests
    /\ \E request \in ConcurrentRequests :
          pending' = pending \cup {Spread([rid |-> rid], request)}
    /\ UNCHANGED <<products, nextId, now, call, ret, nreq, everHeld, created,
                   deleted, answered>>

\* the handler the router runs for a request
Route(request) ==
    CASE request.op = "create" -> createProduct(request.body)
      [] request.op = "update" -> partialUpdateProduct(request.id, request.body)
      [] request.op = "delete" -> deleteProduct(request.id)
      [] request.op = "findById" -> getProductById(request.id)

\* mutant of HandleNext: the handlers of two waiting creates interleave, both
\* reading nextId before either stores its increment
HandleNext_createsInterleave ==
    \/ \E request \in pending :
          Handle("http", request.op, request, Route(request))
    \/ \E a, b \in pending :
          /\ a.rid # b.rid
          /\ a.op = "create"
          /\ b.op = "create"
          /\ nreq + 2 <= MaxRequests
          /\ LET ra == create(a.body)
                 rb == create(b.body)
                 store == Append(ra.products, rb.products[Len(rb.products)])
             IN  /\ products' = store
                 /\ nextId' = ra.nextId
                 /\ nreq' = nreq + 2
                 /\ call' = Spread([layer |-> "http", op |-> "create"], b)
                 /\ ret' = ReturnOne(Ref(Len(store)))
                 /\ everHeld' = everHeld \cup IdsOf(store)
                 /\ created' = created \cup {nextId}
                 /\ pending' = pending \ {a, b}
                 /\ answered' = answered \cup
                        { [request |-> a, kind |-> "ok", id |-> nextId],
                          [request |-> b, kind |-> "ok", id |-> nextId] }
                 /\ UNCHANGED <<now, deleted>>

\* the event loop takes a waiting request and runs its handler to the end
HandleNext ==
    \E request \in pending :
        Handle("http", request.op, request, Route(request))

NextConcurrent == IssueRequest \/ HandleNext

SpecConcurrent == Init /\ [][NextConcurrent]_vars

\* what a client can tell of the store: the ids in order, each with its price
Visible(store) ==
    [i \in 1..Len(store) |-> [id |-> store[i].id, price |-> store[i].price]]

\* one request served alone, on the visible store s.list and counter s.next
SerialStep(s, request) ==
    LET at == { i \in 1..Len(s.list) : s.list[i].id = request.id }
        missing == [list |-> s.list, next |-> s.next,
                    kind |-> "NotFoundException", id |-> 0]
    IN
    CASE request.op = "create" ->
            [ list |-> Append(s.list, [id |-> s.next, price |-> request.body.price]),
              next |-> s.next + 1, kind |-> "ok", id |-> s.next ]
      [] request.op = "update" ->
            IF request.body.price <= 0
            THEN [list |-> s.list, next |-> s.next,
                  kind |-> "BadRequestException", id |-> 0]
            ELSE IF at = {} THEN missing
            ELSE [ list |-> [i \in 1..Len(s.list) |->
                                IF i \in at
                                THEN [id |-> request.id, price |-> request.body.price]
                                ELSE s.list[i]],
                   next |-> s.next, kind |-> "ok", id |-> request.id ]
      [] request.op = "delete" ->
            IF at = {} THEN missing
            ELSE [ list |-> SelectSeq(s.list, LAMBDA p : p.id # request.id),
                   next |-> s.next, kind |-> "ok", id |-> request.id ]
      [] request.op = "findById" ->
            IF at = {} THEN missing
            ELSE [list |-> s.list, next |-> s.next, kind |-> "ok", id |-> request.id]

\* serving order[k], order[k+1], ... one after another from s gives each the
\* response it got and ends in the store as it is now
RECURSIVE SerialFrom(_, _, _)
SerialFrom(s, order, k) ==
    IF k > Len(order)
    THEN s.list = Visible(products) /\ s.next = nextId
    ELSE LET t == SerialStep(s, order[k].request) IN
         /\ t.kind = order[k].kind
         /\ t.id = order[k].id
         /\ SerialFrom([list |-> t.list, next |-> t.next], order, k + 1)

\* the orders in which the answered requests can be lined up
AnsweredOrders ==
    { order \in [1..Cardinality(answered) -> answered] :
          \A i, j \in 1..Cardinality(answered) : order[i] = order[j] => i = j }

\* C30: whatever requests have arrived and in whatever order the loop has
\* taken them, the responses given so far and the store as it is (ids in
\* order, prices, nextId) are those of serving the answered requests one
\* after another in some order from the seeded store; two answered creates
\* never got the same id, and the record of each is in the store unless a
\* delete removed it.
C30_RequestsSerializable ==
    /\ \E order \in AnsweredOrders :
          SerialFrom([list |-> Visible(SeedProducts), next |-> SeedNextId], order, 1)
    /\ \A a, b \in answered :
          (a.request.op = "create" /\ b.request.op = "create" /\ a # b) =>
              a.id # b.id
    /\ \A a \in answered :
          a.request.op = "create" => a.id \in IdsOf(products) \cup deleted

\* two creates waited together and the later arrival was served first, a
\* delete removed the record of one of them, and all three have been answered
C30_Witness ==
    /\ pending = {}
    /\ \E a, b \in answered :
          /\ a.request.op = "create"
          /\ b.request.op = "create"
          /\ a.request.rid < b.request.rid
          /\ a.id > b.id
    /\ \E a \in answered : a.request.op = "delete" /\ a.kind = "ok"
    /\ Len(products) = Len(SeedProducts) + 1

=============================================================================
